---- MODULE Spec2Model ----
(***************************************************************************)
(* Session / permission authorization core of the AIex backend:            *)
(* src/api/auth.py, src/api/database.py, src/api/user_routes.py and        *)
(* src/api/models.py.                                                      *)
(*                                                                         *)
(* Time is measured in hours.  Two steps with no Tick between them happen  *)
(* at the same clock reading (within the same second of the wall clock).   *)
(***************************************************************************)
EXTENDS Integers, Sequences, FiniteSets, Bags, TLC

\* ------------------------------------------------------------------ bounds
MaxTime == 24
MaxSessions == 2
MaxRequests == 2
MaxAudit == 4
MaxAuditLong == 5
MaxFailures == 1
MaxResetTokens == 2
MaxPasswords == 2

\* ------------------------------------------------------- program constants
ACCESS_TOKEN_EXPIRE_HOURS == 24
HoursPerDay == 24
DaysPerWeek == 7
ResetTokenHours == 24

\* clock advance of one Tick: half the token lifetime
TickStep == ACCESS_TOKEN_EXPIRE_HOURS \div 2

\* --------------------------------------------------------------- SQL NULL
Null == <<>>
Some(x) == <<x>>
Val(o) == o[1]

\* ------------------------------------------------------------------ users
AdminId == 1
UserIds == {1, 2}
NoCaller == 0

UserStatus == {"pending", "active", "suspended", "inactive"}

\* row inserted by UserDatabase.create_user
NewUserRow ==
    [exists |-> TRUE, role |-> "user", status |-> "pending",
     permission_granted_at |-> Null, permission_expires_at |-> Null,
     granted_by |-> Null, last_login |-> Null]

\* the default administrator the migration seeds
AdminRow ==
    [exists |-> TRUE, role |-> "admin", status |-> "active",
     permission_granted_at |-> Null, permission_expires_at |-> Null,
     granted_by |-> Null, last_login |-> Null]

\* an id no row has been inserted for (or whose row was deleted)
NoUserRow ==
    [exists |-> FALSE, role |-> "user", status |-> "pending",
     permission_granted_at |-> Null, permission_expires_at |-> Null,
     granted_by |-> Null, last_login |-> Null]

\* the username, full_name and email a row is registered with: usernames and
\* emails are numbered, the ones of distinct rows differ
RegisteredProfile(u) == [username |-> u, full_name |-> 0, email |-> u]

\* ------------------------------------------------------------- durations
NoDuration == "none"
valid_presets == {"1week", "1month", "3months", "6months", "1year"}
CustomDurations == {"1day", "2days"}
ReviewDurations == {"1week", "1day"}

\* approved_duration left out of the request body
DurAbsent == "absent"

\* the approved_duration inputs of a review: a value, null, or no field at all
DurationInputs == ReviewDurations \cup {NoDuration, DurAbsent}

\* the <N> captured by ^(\d+)days?$
CustomDays(d) == CASE d = "1day" -> 1 [] d = "2days" -> 2

\* INTERVAL of a duration string, in hours
IntervalHours(d) ==
    CASE d = "1week" -> DaysPerWeek * HoursPerDay
      [] d = "1month" -> 30 * HoursPerDay
      [] d = "3months" -> 90 * HoursPerDay
      [] d = "6months" -> 180 * HoursPerDay
      [] d = "1year" -> 365 * HoursPerDay
      [] OTHER -> CustomDays(d) * HoursPerDay

\* PermissionReview.validate_approved_duration: TRUE when the body is accepted
validate_approved_duration(approved, v) ==
    /\ ~(approved /\ v = NoDuration)
    /\ v # NoDuration => (v \in valid_presets \/ v \in CustomDurations)

\* PermissionReview.approved_duration as the handler reads it: the default None
\* when the body leaves the field out
body_duration(d) == IF d = DurAbsent THEN NoDuration ELSE d

\* PermissionReview: TRUE when the body is accepted. The validator is declared
\* without always=True, so it does not run for a field the body leaves out.
PermissionReview(approved, d) ==
    d = DurAbsent \/ validate_approved_duration(approved, d)

\* PermissionUpdate.validate_days
validate_days(v) == ~(v < -1)

VARIABLES
    now,            \* the clock (hours)
    users,          \* table users: id -> row
    nextUserId,     \* serial of users.id
    sessions,       \* table user_sessions: set of rows
    nextSessionId,  \* serial of user_sessions.id
    issued,         \* tokens returned to clients by login
    requests,       \* table permission_requests: set of rows
    nextRequestId,  \* serial of permission_requests.id
    audit,          \* table audit_logs: a bag of <<user_id, action>> rows
    pc,             \* the in-flight multi-statement handlers
    resp,           \* the response of the handler that returned last
    reviewGrants,   \* history: request id -> grants applied by its reviews
    uniqueTokenHash, \* whether user_sessions.token_hash carries a UNIQUE constraint
    loggedOut,      \* history: the tokens logout_user has run for
    failures,       \* history: the number of statements that have failed
    auditCap,       \* the number of audit_logs rows a behaviour is followed to
    password_hash,  \* column users.password_hash: id -> the serial of the digest stored
    password_reset_tokens, \* table password_reset_tokens: set of rows
    nextResetTokenId, \* serial of the reset tokens generated
    resetUpdates,   \* history: reset token -> password updates made on its behalf
    profile         \* columns users.username, full_name, email: id -> values

vars == <<now, users, nextUserId, sessions, nextSessionId, issued, requests,
          nextRequestId, audit, pc, resp, reviewGrants, uniqueTokenHash, loggedOut,
          failures, auditCap, password_hash, password_reset_tokens,
          nextResetTokenId, resetUpdates, profile>>

Procs == {1, 2}

Idle == [step |-> "idle", caller |-> NoCaller, rid |-> 0, approved |-> FALSE,
         dur |-> NoDuration, target |-> 0]

NoResp == [op |-> "none", code |-> 0, detail |-> "none", caller |-> NoCaller]

Resp(op, code, detail, caller) ==
    [op |-> op, code |-> code, detail |-> detail, caller |-> caller]

\* the tables after the migration, followed to cap audit_logs rows
Start(cap) ==
    /\ now = 0
    /\ users = [u \in UserIds |-> IF u = AdminId THEN AdminRow ELSE NoUserRow]
    /\ nextUserId = 2
    /\ sessions = {}
    /\ nextSessionId = 1
    /\ issued = {}
    /\ requests = {}
    /\ nextRequestId = 1
    /\ audit = EmptyBag
    /\ pc = [p \in Procs |-> Idle]
    /\ resp = NoResp
    /\ reviewGrants = [r \in 1..MaxRequests |-> 0]
    /\ uniqueTokenHash \in BOOLEAN
    /\ loggedOut = {}
    /\ failures = 0
    /\ auditCap = cap
    /\ password_hash = [u \in UserIds |-> 0]
    /\ password_reset_tokens = {}
    /\ nextResetTokenId = 1
    /\ resetUpdates = [k \in 1..MaxResetTokens |-> 0]
    /\ profile = [u \in UserIds |-> RegisteredProfile(u)]

Init == Start(MaxAudit)

\* the same start, followed further
InitLong == Start(MaxAuditLong)

\* the same start, followed one audit_logs row further still
InitLonger == Start(MaxAuditLong + 1)


\* ----------------------------------------------------------------- tokens
\* jwt.encode of {user_id, username, role, exp}: HS256 is deterministic, so the
\* token is a function of its claims; exp has the resolution of the clock reading
create_access_token(user_id, role, t) ==
    [user_id |-> user_id, role |-> role,
     exp |-> t + ACCESS_TOKEN_EXPIRE_HOURS, sig |-> "ok"]

\* what jwt.decode does with the token at time t: the signature is checked
\* before the exp claim
verify_token(token, t) ==
    IF token.sig # "ok" THEN "invalid"
    ELSE IF token.exp <= t THEN "expired"
    ELSE "ok"

\* SHA-256 of the raw token string (collision free)
hash_token(token) == <<"sha256", token.user_id, token.role, token.exp, token.sig>>

\* a token whose signature does not verify
Forged(token) == [token EXCEPT !.sig = "bad"]

\* ------------------------------------------------------------ data layer
\* SessionDatabase.validate_session: the rows the SELECT returns
validate_session(ss, us, token_hash, t) ==
    {s \in ss : /\ s.token_hash = token_hash
                /\ s.expires_at > t
                /\ us[s.user_id].exists}

\* SessionDatabase.delete_session
delete_session(ss, token_hash) == {s \in ss : s.token_hash # token_hash}

\* cleanup_expired_sessions deleting the rows that expire within the next step
\* of the clock as well
cleanup_expired_sessions_early(ss, t) == {s \in ss : ~(s.expires_at <= t + TickStep)}

\* SessionDatabase.cleanup_expired_sessions
cleanup_expired_sessions(ss, t) == {s \in ss : ~(s.expires_at <= t)}

\* update_user_permission with the days = 0 branch leaving the user active
update_user_permission_zero_active(us, user_id, days, granted_by, t) ==
    IF ~(us[user_id].exists /\ us[user_id].role = "user") THEN us
    ELSE
        [us EXCEPT ![user_id].permission_granted_at = Some(t),
                   ![user_id].permission_expires_at =
                        IF days = -1 THEN Null ELSE Some(t + days * HoursPerDay),
                   ![user_id].granted_by = Some(granted_by),
                   ![user_id].status = "active"]

\* UserDatabase.update_user_permission: the users table after the UPDATE
update_user_permission(us, user_id, days, granted_by, t) ==
    IF ~(us[user_id].exists /\ us[user_id].role = "user") THEN us
    ELSE IF days = -1 THEN
        [us EXCEPT ![user_id].permission_granted_at = Some(t),
                   ![user_id].permission_expires_at = Null,
                   ![user_id].granted_by = Some(granted_by),
                   ![user_id].status = "active"]
    ELSE IF days = 0 THEN
        [us EXCEPT ![user_id].permission_granted_at = Some(t),
                   ![user_id].permission_expires_at = Some(t),
                   ![user_id].granted_by = Some(granted_by),
                   ![user_id].status = "inactive"]
    ELSE
        [us EXCEPT ![user_id].permission_granted_at = Some(t),
                   ![user_id].permission_expires_at = Some(t + days * HoursPerDay),
                   ![user_id].granted_by = Some(granted_by),
                   ![user_id].status = "active"]

\* grant_permission writing the window and leaving users.status as it was
grant_permission_window_only(us, user_id, duration, granted_by, t) ==
    IF ~us[user_id].exists THEN us
    ELSE
        [us EXCEPT ![user_id].permission_granted_at = Some(t),
                   ![user_id].permission_expires_at = Some(t + IntervalHours(duration)),
                   ![user_id].granted_by = Some(granted_by)]

\* UserDatabase.grant_permission: the users table after the UPDATE
grant_permission(us, user_id, duration, granted_by, t) ==
    IF ~us[user_id].exists THEN us
    ELSE
        [us EXCEPT ![user_id].status = "active",
                   ![user_id].permission_granted_at = Some(t),
                   ![user_id].permission_expires_at = Some(t + IntervalHours(duration)),
                   ![user_id].granted_by = Some(granted_by)]

\* UserDatabase.update_user(user_id, status=...)
update_user(us, user_id, status) ==
    IF ~us[user_id].exists THEN us
    ELSE [us EXCEPT ![user_id].status = status]

\* PermissionRequestDatabase.review_request: the table after the UPDATE
review_request(rs, request_id, approved, reviewed_by, approved_duration) ==
    {IF r.id = request_id
        THEN [r EXCEPT !.status = IF approved THEN "approved" ELSE "rejected",
                       !.reviewed_by = Some(reviewed_by),
                       !.approved_duration = approved_duration]
        ELSE r : r \in rs}

\* PermissionRequestDatabase.get_user_requests
get_user_requests(rs, user_id) == {r \in rs : r.user_id = user_id}

\* PermissionRequestDatabase.get_request_by_id
get_request_by_id(rs, request_id) == {r \in rs : r.id = request_id}

\* AuditDatabase.log_action
log_action(log, user_id, action) == log (+) SetToBag({<<user_id, action>>})

\* ------------------------------------------------------- access control
Unauthenticated(detail) == [code |-> 401, detail |-> detail, user_id |-> NoCaller]
Forbidden(detail) == [code |-> 403, detail |-> detail, user_id |-> NoCaller]
Principal(user_id) == [code |-> 200, detail |-> "ok", user_id |-> user_id]

\* get_current_user without the check of the user's status
get_current_user_any_status(token) ==
    LET v == verify_token(token, now) IN
    IF v = "expired" THEN Unauthenticated("auth_failed")
    ELSE IF v = "invalid" THEN Unauthenticated("auth_error")
    ELSE IF token.user_id = 0 THEN Unauthenticated("auth_failed")
    ELSE IF validate_session(sessions, users, hash_token(token), now) = {}
        THEN Unauthenticated("auth_failed")
    ELSE IF ~users[token.user_id].exists THEN Unauthenticated("auth_failed")
    ELSE Principal(token.user_id)

\* auth.get_current_user on the current tables
get_current_user(token) ==
    LET v == verify_token(token, now) IN
    IF v = "expired" THEN Unauthenticated("auth_failed")
    ELSE IF v = "invalid" THEN Unauthenticated("auth_error")
    ELSE IF token.user_id = 0 THEN Unauthenticated("auth_failed")
    ELSE IF validate_session(sessions, users, hash_token(token), now) = {}
        THEN Unauthenticated("auth_failed")
    ELSE IF ~users[token.user_id].exists THEN Unauthenticated("auth_failed")
    ELSE IF users[token.user_id].status \notin {"active", "pending"}
        THEN Unauthenticated("auth_failed")
    ELSE Principal(token.user_id)

\* active_user_check with the expiry compared by < instead of <=
active_user_check_strict(user, t) ==
    IF user.role = "admin" THEN "ok"
    ELSE IF user.status # "active" THEN "not_approved"
    ELSE IF user.permission_expires_at # Null /\ Val(user.permission_expires_at) < t
        THEN "permission_expired"
    ELSE "ok"

\* the checks of auth.get_current_active_user on a resolved principal
active_user_check(user, t) ==
    IF user.role = "admin" THEN "ok"
    ELSE IF user.status # "active" THEN "not_approved"
    ELSE IF user.permission_expires_at # Null /\ Val(user.permission_expires_at) <= t
        THEN "permission_expired"
    ELSE "ok"

\* auth.get_current_active_user
get_current_active_user(token) ==
    LET base == get_current_user(token) IN
    IF base.code # 200 THEN base
    ELSE LET c == active_user_check(users[base.user_id], now) IN
         IF c = "ok" THEN base ELSE Forbidden(c)

\* auth.get_current_admin_user
get_current_admin_user(token) ==
    LET base == get_current_user(token) IN
    IF base.code # 200 THEN base
    ELSE IF users[base.user_id].role # "admin" THEN Forbidden("admin_required")
    ELSE base

\* the tokens a client can present: those login returned, and forgeries of them
Presentable == issued \cup {Forged(t) : t \in issued}

\* room in the audit table for every handler in flight and one more
AuditRoom ==
    BagCardinality(audit) + Cardinality({p \in Procs : pc[p].step # "idle"}) < auditCap


\* ------------------------------------------------------------- handlers
\* POST /register: dup = the username or email is already taken
register_user(dup) ==
    /\ AuditRoom
    /\ IF dup
       THEN /\ \E u \in UserIds : users[u].exists
            /\ resp' = Resp("register", 400, "taken", NoCaller)
            /\ UNCHANGED <<users, nextUserId, audit>>
       ELSE /\ nextUserId \in UserIds
            /\ users' = [users EXCEPT ![nextUserId] = NewUserRow]
            /\ nextUserId' = nextUserId + 1
            /\ audit' = log_action(audit, nextUserId, "user_register")
            /\ resp' = Resp("register", 200, "ok", nextUserId)
    /\ UNCHANGED <<now, sessions, nextSessionId, issued, requests, nextRequestId,
                   pc, reviewGrants, uniqueTokenHash, auditCap,
                   password_hash, password_reset_tokens, nextResetTokenId, resetUpdates, profile, failures, loggedOut>>

\* the session row auth.create_user_session inserts for user u at time t
NewSession(u, t) ==
    [id |-> nextSessionId, user_id |-> u,
     token_hash |-> hash_token(create_access_token(u, users[u].role, t)),
     expires_at |-> t + ACCESS_TOKEN_EXPIRE_HOURS]

\* authenticate_user without the password check
authenticate_user_no_password(us, u, pwOk) ==
    IF ~us[u].exists THEN NoCaller ELSE u

\* auth.authenticate_user: the id of the user, NoCaller for None
authenticate_user(us, u, pwOk) ==
    IF ~us[u].exists THEN NoCaller
    ELSE IF ~pwOk THEN NoCaller
    ELSE u

\* POST /login with the username of user u; pwOk = the password verifies
login_user(u, pwOk) ==
    /\ AuditRoom
    /\ IF authenticate_user(users, u, pwOk) = NoCaller
       THEN /\ resp' = Resp("login", 401, "bad_credentials", NoCaller)
            /\ UNCHANGED <<users, sessions, nextSessionId, issued, audit>>
       ELSE IF users[u].status = "suspended"
       THEN /\ resp' = Resp("login", 403, "suspended", NoCaller)
            /\ UNCHANGED <<users, sessions, nextSessionId, issued, audit>>
       ELSE IF users[u].status = "inactive"
       THEN /\ resp' = Resp("login", 423, "inactive", NoCaller)
            /\ UNCHANGED <<users, sessions, nextSessionId, issued, audit>>
       ELSE IF /\ uniqueTokenHash
               /\ \E s \in sessions : s.token_hash = NewSession(u, now).token_hash
       THEN \* the INSERT violates the constraint: DatabaseError, rolled back
            /\ resp' = Resp("login", 500, "database_error", NoCaller)
            /\ UNCHANGED <<users, sessions, nextSessionId, issued, audit>>
       ELSE /\ nextSessionId <= MaxSessions
            /\ sessions' = sessions \cup {NewSession(u, now)}
            /\ nextSessionId' = nextSessionId + 1
            /\ users' = [users EXCEPT ![u].last_login = Some(now)]
            /\ audit' = log_action(audit, u, "user_login")
            /\ issued' = issued \cup {create_access_token(u, users[u].role, now)}
            /\ resp' = Resp("login", 200, "ok", u)
    /\ UNCHANGED <<now, nextUserId, requests, nextRequestId, pc, reviewGrants,
                   uniqueTokenHash, auditCap,
                   password_hash, password_reset_tokens, nextResetTokenId, resetUpdates, profile, failures, loggedOut>>

\* POST /logout carrying token t
logout_user_endpoint(t) ==
    LET g == get_current_user(t) IN
    /\ AuditRoom
    /\ IF g.code # 200
       THEN /\ resp' = Resp("logout", g.code, g.detail, NoCaller)
            /\ UNCHANGED <<sessions, audit, loggedOut>>
       ELSE /\ sessions' = delete_session(sessions, hash_token(t))
            /\ loggedOut' = loggedOut \cup {t}
            /\ audit' = log_action(audit, g.user_id, "user_logout")
            /\ resp' = Resp("logout", 200, "ok", g.user_id)
    /\ UNCHANGED <<now, users, nextUserId, nextSessionId, issued, requests,
                   nextRequestId, pc, reviewGrants, uniqueTokenHash, auditCap,
                   password_hash, password_reset_tokens, nextResetTokenId, resetUpdates, profile, failures>>

\* GET /profile: a route behind the base principal resolver alone
get_user_profile(t) ==
    LET g == get_current_user(t) IN
    /\ resp' = Resp("profile", g.code, g.detail, g.user_id)
    /\ UNCHANGED <<now, users, nextUserId, sessions, nextSessionId, issued,
                   requests, nextRequestId, audit, pc, reviewGrants, uniqueTokenHash, auditCap,
                   password_hash, password_reset_tokens, nextResetTokenId, resetUpdates, profile, failures, loggedOut>>

\* get_current_active_user writing the lapse of the permission into users.status
users_after_active_gate_reconciled(us, user_id, t) ==
    IF /\ us[user_id].role # "admin"
       /\ us[user_id].status = "active"
       /\ us[user_id].permission_expires_at # Null
       /\ Val(us[user_id].permission_expires_at) <= t
    THEN [us EXCEPT ![user_id].status = "inactive"]
    ELSE us

\* auth.get_current_active_user: the table users after the gate has run for
\* user_id; the gate compares status and permission_expires_at and issues no
\* UPDATE (check_permission_expiry is `pass` and is not called)
users_after_active_gate(us, user_id, t) == us

\* a route behind the active-access gate whose handler changes no state
active_route(t) ==
    LET base == get_current_user(t)
        g == get_current_active_user(t) IN
    /\ resp' = Resp("active_route", g.code, g.detail, g.user_id)
    /\ users' = IF base.code = 200
                THEN users_after_active_gate(users, base.user_id, now)
                ELSE users
    /\ UNCHANGED <<now, nextUserId, sessions, nextSessionId, issued,
                   requests, nextRequestId, audit, pc, reviewGrants, uniqueTokenHash, auditCap,
                   password_hash, password_reset_tokens, nextResetTokenId, resetUpdates, profile, failures, loggedOut>>

\* GET /admin/stats: a route behind the admin gate whose handler only reads
get_admin_stats(t) ==
    LET g == get_current_admin_user(t) IN
    /\ resp' = Resp("admin_stats", g.code, g.detail, g.user_id)
    /\ UNCHANGED <<now, users, nextUserId, sessions, nextSessionId, issued,
                   requests, nextRequestId, audit, pc, reviewGrants, uniqueTokenHash, auditCap,
                   password_hash, password_reset_tokens, nextResetTokenId, resetUpdates, profile, failures, loggedOut>>

\* pending_requests with the filter of the extension route
pending_requests_extension_only(rs, user_id) ==
    {r \in get_user_requests(rs, user_id) :
        r.status = "pending" /\ r.request_reason = "extension"}

\* the rows of a user's pending permission requests
pending_requests(rs, user_id) ==
    {r \in get_user_requests(rs, user_id) : r.status = "pending"}

\* POST /request-permission, up to the pending check
request_permission_check(p, t) ==
    LET g == get_current_user(t) IN
    /\ pc[p].step = "idle"
    /\ AuditRoom
    /\ IF g.code # 200
       THEN /\ resp' = Resp("request_permission", g.code, g.detail, NoCaller)
            /\ pc' = pc
       ELSE IF pending_requests(requests, g.user_id) # {}
       THEN /\ resp' = Resp("request_permission", 400, "pending_exists", g.user_id)
            /\ pc' = pc
       ELSE /\ nextRequestId
                 + Cardinality({q \in Procs : pc[q].step = "req_insert"}) <= MaxRequests
            /\ pc' = [pc EXCEPT ![p] = [Idle EXCEPT !.step = "req_insert",
                                                    !.caller = g.user_id]]
            /\ resp' = resp
    /\ UNCHANGED <<now, users, nextUserId, sessions, nextSessionId, issued,
                   requests, nextRequestId, audit, reviewGrants, uniqueTokenHash, auditCap,
                   password_hash, password_reset_tokens, nextResetTokenId, resetUpdates, profile, failures, loggedOut>>

\* the row PermissionRequestDatabase.create_request inserts
NewRequest(user_id) ==
    [id |-> nextRequestId, user_id |-> user_id, request_reason |-> "initial",
     requested_duration |-> "1month", status |-> "pending",
     reviewed_by |-> Null, approved_duration |-> NoDuration]

\* POST /request-permission, from create_request on
request_permission_insert(p) ==
    /\ pc[p].step = "req_insert"
    /\ IF ~users[pc[p].caller].exists
       THEN \* the owning user is gone: the INSERT fails
            /\ resp' = Resp("request_permission", 500, "database_error", pc[p].caller)
            /\ UNCHANGED <<requests, nextRequestId, audit>>
       ELSE /\ requests' = requests \cup {NewRequest(pc[p].caller)}
            /\ nextRequestId' = nextRequestId + 1
            /\ audit' = log_action(audit, pc[p].caller, "permission_request_create")
            /\ resp' = Resp("request_permission", 200, "ok", pc[p].caller)
    /\ pc' = [pc EXCEPT ![p] = Idle]
    /\ UNCHANGED <<now, users, nextUserId, sessions, nextSessionId, issued,
                   reviewGrants, uniqueTokenHash, auditCap,
                   password_hash, password_reset_tokens, nextResetTokenId, resetUpdates, profile, failures, loggedOut>>


\* the row request_permission_extension has create_request insert
NewExtensionRequest(user_id) ==
    [id |-> nextRequestId, user_id |-> user_id, request_reason |-> "extension",
     requested_duration |-> "1", status |-> "pending",
     reviewed_by |-> Null, approved_duration |-> NoDuration]

\* pending_extension_requests counting the requests of any status
pending_extension_requests_reviewed(rs, user_id) ==
    {r \in get_user_requests(rs, user_id) :
        r.status # "pending" /\ r.request_reason = "extension"}

\* request_permission_extension: the caller's pending requests whose reason is
\* the sentinel of an extension
pending_extension_requests(rs, user_id) ==
    {r \in get_user_requests(rs, user_id) :
        r.status = "pending" /\ r.request_reason = "extension"}

\* POST /request-permission-extension, called with nothing else in between
request_permission_extension(t) ==
    LET g == get_current_user(t) IN
    /\ AuditRoom
    /\ IF g.code # 200
       THEN /\ resp' = Resp("extension", g.code, g.detail, NoCaller)
            /\ UNCHANGED <<requests, nextRequestId, audit>>
       ELSE IF users[g.user_id].status # "active"
       THEN /\ resp' = Resp("extension", 400, "not_active", g.user_id)
            /\ UNCHANGED <<requests, nextRequestId, audit>>
       ELSE IF pending_extension_requests(requests, g.user_id) # {}
       THEN /\ resp' = Resp("extension", 400, "pending_exists", g.user_id)
            /\ UNCHANGED <<requests, nextRequestId, audit>>
       ELSE /\ nextRequestId <= MaxRequests
            /\ requests' = requests \cup {NewExtensionRequest(g.user_id)}
            /\ nextRequestId' = nextRequestId + 1
            /\ audit' = log_action(audit, g.user_id, "request_permission_extension")
            /\ resp' = Resp("extension", 200, "ok", g.user_id)
    /\ UNCHANGED <<now, users, nextUserId, sessions, nextSessionId, issued, pc,
                   reviewGrants, uniqueTokenHash, auditCap,
                   password_hash, password_reset_tokens, nextResetTokenId, resetUpdates, profile, failures, loggedOut>>

\* review_permission_request without the check of the request's status
review_precheck_any_status(found) ==
    IF found = {} THEN "no_request" ELSE "ok"

\* review_permission_request: the checks made on the row get_request_by_id returned
review_precheck(found) ==
    IF found = {} THEN "no_request"
    ELSE IF \E r \in found : r.status # "pending" THEN "already_reviewed"
    ELSE "ok"

\* POST /admin/review-request, up to the pending check
review_check(p, t, rid, approved, dur) ==
    LET g == get_current_admin_user(t)
        found == get_request_by_id(requests, rid)
        pre == review_precheck(found) IN
    /\ pc[p].step = "idle"
    /\ AuditRoom
    /\ IF g.code # 200
       THEN /\ resp' = Resp("review", g.code, g.detail, NoCaller)
            /\ pc' = pc
       ELSE IF ~PermissionReview(approved, dur)
       THEN /\ resp' = Resp("review", 422, "validation", g.user_id)
            /\ pc' = pc
       ELSE IF pre = "no_request"
       THEN /\ resp' = Resp("review", 404, "no_request", g.user_id)
            /\ pc' = pc
       ELSE IF pre = "already_reviewed"
       THEN /\ resp' = Resp("review", 400, "already_reviewed", g.user_id)
            /\ pc' = pc
       ELSE /\ pc' = [pc EXCEPT ![p] =
                        [step |-> "rev_update", caller |-> g.user_id, rid |-> rid,
                         approved |-> approved, dur |-> body_duration(dur),
                         target |-> (CHOOSE r \in found : TRUE).user_id]]
            /\ resp' = resp
    /\ UNCHANGED <<now, users, nextUserId, sessions, nextSessionId, issued,
                   requests, nextRequestId, audit, reviewGrants, uniqueTokenHash, auditCap,
                   password_hash, password_reset_tokens, nextResetTokenId, resetUpdates, profile, failures, loggedOut>>

\* review_permission_request granting for any verdict that carries a duration
review_grants_any_verdict(approved, approved_duration) ==
    approved_duration # NoDuration

\* review_permission_request: whether the review goes on to grant_permission
review_grants(approved, approved_duration) ==
    approved /\ approved_duration # NoDuration

\* POST /admin/review-request: PermissionRequestDatabase.review_request, and for a
\* rejection the audit entry and the response
review_update(p) ==
    /\ pc[p].step = "rev_update"
    /\ requests' = review_request(requests, pc[p].rid, pc[p].approved,
                                  pc[p].caller, pc[p].dur)
    /\ IF get_request_by_id(requests, pc[p].rid) = {}
       THEN \* rowcount = 0
            /\ resp' = Resp("review", 500, "review_failed", pc[p].caller)
            /\ pc' = [pc EXCEPT ![p] = Idle]
            /\ audit' = audit
       ELSE IF review_grants(pc[p].approved, pc[p].dur)
       THEN /\ pc' = [pc EXCEPT ![p].step = "rev_grant"]
            /\ UNCHANGED <<resp, audit>>
       ELSE /\ audit' = log_action(audit, pc[p].caller, "permission_request_review")
            /\ resp' = Resp("review", 200,
                            IF pc[p].approved THEN "approved" ELSE "rejected",
                            pc[p].caller)
            /\ pc' = [pc EXCEPT ![p] = Idle]
    /\ UNCHANGED <<now, users, nextUserId, sessions, nextSessionId, issued,
                   nextRequestId, reviewGrants, uniqueTokenHash, auditCap,
                   password_hash, password_reset_tokens, nextResetTokenId, resetUpdates, profile, failures, loggedOut>>

\* POST /admin/review-request: UserDatabase.grant_permission, the audit entry and
\* the response
review_grant(p) ==
    /\ pc[p].step = "rev_grant"
    /\ users' = grant_permission(users, pc[p].target, pc[p].dur, pc[p].caller, now)
    /\ reviewGrants' = IF users[pc[p].target].exists
                       THEN [reviewGrants EXCEPT ![pc[p].rid] = @ + 1]
                       ELSE reviewGrants
    /\ audit' = log_action(audit, pc[p].caller, "permission_request_review")
    /\ resp' = Resp("review", 200, "approved", pc[p].caller)
    /\ pc' = [pc EXCEPT ![p] = Idle]
    /\ UNCHANGED <<now, nextUserId, sessions, nextSessionId, issued, requests,
                   nextRequestId, uniqueTokenHash, auditCap,
                   password_hash, password_reset_tokens, nextResetTokenId, resetUpdates, profile, failures, loggedOut>>

\* POST /admin/review-request: the connection fails at grant_permission
\* (DatabaseError), after review_request has committed
review_grant_fail(p) ==
    /\ pc[p].step = "rev_grant"
    /\ resp' = Resp("review", 500, "database_error", pc[p].caller)
    /\ pc' = [pc EXCEPT ![p] = Idle]
    /\ UNCHANGED <<now, users, nextUserId, sessions, nextSessionId, issued, requests,
                   nextRequestId, audit, reviewGrants, uniqueTokenHash, auditCap,
                   password_hash, password_reset_tokens, nextResetTokenId, resetUpdates, profile, failures, loggedOut>>

\* PUT /admin/users/{u}/permission
update_user_permission_route(t, u, days) ==
    LET g == get_current_admin_user(t) IN
    /\ AuditRoom
    /\ IF g.code # 200
       THEN /\ resp' = Resp("permission", g.code, g.detail, NoCaller)
            /\ UNCHANGED <<users, audit>>
       ELSE IF ~validate_days(days)
       THEN /\ resp' = Resp("permission", 422, "validation", g.user_id)
            /\ UNCHANGED <<users, audit>>
       ELSE IF ~users[u].exists
       THEN /\ resp' = Resp("permission", 404, "no_user", g.user_id)
            /\ UNCHANGED <<users, audit>>
       ELSE IF users[u].role = "admin"
       THEN /\ resp' = Resp("permission", 400, "admin_target", g.user_id)
            /\ UNCHANGED <<users, audit>>
       ELSE /\ users' = update_user_permission(users, u, days, g.user_id, now)
            /\ audit' = log_action(audit, g.user_id, "permission_update")
            /\ resp' = Resp("permission", 200, "ok", g.user_id)
    /\ UNCHANGED <<now, nextUserId, sessions, nextSessionId, issued, requests,
                   nextRequestId, pc, reviewGrants, uniqueTokenHash, auditCap,
                   password_hash, password_reset_tokens, nextResetTokenId, resetUpdates, profile, failures, loggedOut>>

\* the status edit, had it deleted the sessions of a user it blocks
sessions_after_status_update_revoking(ss, user_id, st) ==
    IF st \in {"suspended", "inactive"}
    THEN {s \in ss : s.user_id # user_id}
    ELSE ss

\* user_sessions after update_user_status: its statements name users and
\* audit_logs alone
sessions_after_status_update(ss, user_id, st) == ss

\* PUT /admin/users/{u}/status; st = "unset" when the body carries no status
update_user_status(t, u, st) ==
    LET g == get_current_admin_user(t) IN
    /\ AuditRoom
    /\ IF g.code # 200
       THEN /\ resp' = Resp("status", g.code, g.detail, NoCaller)
            /\ UNCHANGED <<users, sessions, audit>>
       ELSE IF ~users[u].exists
       THEN /\ resp' = Resp("status", 404, "no_user", g.user_id)
            /\ UNCHANGED <<users, sessions, audit>>
       ELSE IF users[u].role = "admin"
       THEN /\ resp' = Resp("status", 400, "admin_target", g.user_id)
            /\ UNCHANGED <<users, sessions, audit>>
       ELSE /\ users' = IF st = "unset" THEN users ELSE update_user(users, u, st)
            /\ sessions' = sessions_after_status_update(sessions, u, st)
            /\ audit' = log_action(audit, g.user_id, "user_status_update")
            /\ resp' = Resp("status", 200, "ok", g.user_id)
    /\ UNCHANGED <<now, nextUserId, nextSessionId, issued, requests,
                   nextRequestId, pc, reviewGrants, uniqueTokenHash, auditCap,
                   password_hash, password_reset_tokens, nextResetTokenId,
                   resetUpdates, profile, failures, loggedOut>>

\* UserDatabase.delete_user's effect on audit_logs
null_audit_user(log, user_id) ==
    LET Nulled(e) == IF e[1] = user_id THEN <<NoCaller, e[2]>> ELSE e
        Count(e) == IF e \in DOMAIN log THEN log[e] ELSE 0
    IN  [e \in {Nulled(f) : f \in DOMAIN log} |->
            IF e[1] = NoCaller THEN Count(e) + Count(<<user_id, e[2]>>) ELSE Count(e)]

\* UserDatabase.delete_user without the check of the role
UserDatabase_delete_user_any_role(us, ss, rs, log, user_id) ==
    IF ~us[user_id].exists
    THEN [ok |-> FALSE, users |-> us, sessions |-> ss, requests |-> rs, audit |-> log]
    ELSE [ok |-> TRUE,
          users |-> [us EXCEPT ![user_id] = NoUserRow],
          sessions |-> {x \in ss : x.user_id # user_id},
          requests |-> {r \in rs : r.user_id # user_id},
          audit |-> null_audit_user(log, user_id)]

\* UserDatabase.delete_user: its return value and the tables after it; the rows
\* of user_sessions and permission_requests that reference the user go with it
\* (ON DELETE CASCADE)
UserDatabase_delete_user(us, ss, rs, log, user_id) ==
    IF ~us[user_id].exists \/ us[user_id].role = "admin"
    THEN [ok |-> FALSE, users |-> us, sessions |-> ss, requests |-> rs, audit |-> log]
    ELSE [ok |-> TRUE,
          users |-> [us EXCEPT ![user_id] = NoUserRow],
          sessions |-> {x \in ss : x.user_id # user_id},
          requests |-> {r \in rs : r.user_id # user_id},
          audit |-> null_audit_user(log, user_id)]

\* DELETE /admin/users/{u}
delete_user(t, u) ==
    LET g == get_current_admin_user(t)
        d == UserDatabase_delete_user(users, sessions, requests, audit, u) IN
    /\ AuditRoom
    /\ IF g.code # 200
       THEN /\ resp' = Resp("delete_user", g.code, g.detail, NoCaller)
            /\ UNCHANGED <<users, sessions, requests, audit>>
       ELSE IF ~users[u].exists
       THEN /\ resp' = Resp("delete_user", 404, "no_user", g.user_id)
            /\ UNCHANGED <<users, sessions, requests, audit>>
       ELSE IF users[u].role = "admin"
       THEN /\ resp' = Resp("delete_user", 400, "admin_target", g.user_id)
            /\ UNCHANGED <<users, sessions, requests, audit>>
       ELSE IF ~d.ok
       THEN /\ resp' = Resp("delete_user", 500, "delete_failed", g.user_id)
            /\ UNCHANGED <<users, sessions, requests, audit>>
       ELSE /\ users' = d.users
            /\ sessions' = d.sessions
            /\ requests' = d.requests
            /\ audit' = log_action(d.audit, g.user_id, "user_delete")
            /\ resp' = Resp("delete_user", 200, "ok", g.user_id)
    /\ UNCHANGED <<now, nextUserId, nextSessionId, issued, nextRequestId, pc,
                   reviewGrants, uniqueTokenHash, auditCap,
                   password_hash, password_reset_tokens, nextResetTokenId, resetUpdates, profile, failures, loggedOut>>

\* DELETE /admin/requests/{rid}
delete_permission_request(t, rid) ==
    LET g == get_current_admin_user(t) IN
    /\ AuditRoom
    /\ IF g.code # 200
       THEN /\ resp' = Resp("delete_request", g.code, g.detail, NoCaller)
            /\ UNCHANGED <<requests, audit>>
       ELSE IF get_request_by_id(requests, rid) = {}
       THEN /\ resp' = Resp("delete_request", 404, "no_request", g.user_id)
            /\ UNCHANGED <<requests, audit>>
       ELSE /\ requests' = {r \in requests : r.id # rid}
            /\ audit' = log_action(audit, g.user_id, "permission_request_delete")
            /\ resp' = Resp("delete_request", 200, "ok", g.user_id)
    /\ UNCHANGED <<now, users, nextUserId, sessions, nextSessionId, issued,
                   nextRequestId, pc, reviewGrants, uniqueTokenHash, auditCap,
                   password_hash, password_reset_tokens, nextResetTokenId, resetUpdates, profile, failures, loggedOut>>

\* the periodic run of SessionDatabase.cleanup_expired_sessions
cleanup(t) ==
    /\ t = now
    /\ sessions' = cleanup_expired_sessions(sessions, t)
    /\ sessions' # sessions
    /\ UNCHANGED <<now, users, nextUserId, nextSessionId, issued, requests,
                   nextRequestId, audit, pc, resp, reviewGrants, uniqueTokenHash, auditCap,
                   password_hash, password_reset_tokens, nextResetTokenId, resetUpdates, profile, failures, loggedOut>>

\* the clock advances
Tick ==
    /\ now + TickStep <= MaxTime
    /\ now' = now + TickStep
    /\ UNCHANGED <<users, nextUserId, sessions, nextSessionId, issued, requests,
                   nextRequestId, audit, pc, resp, reviewGrants, uniqueTokenHash, auditCap,
                   password_hash, password_reset_tokens, nextResetTokenId, resetUpdates, profile, failures, loggedOut>>

\* ---- handlers in which one statement's connection fails (psycopg2.Error in
\* get_db_connection becomes DatabaseError); the statements before it have
\* committed, each in its own connection

\* the statements of auth.create_user_session, in order
LoginSteps == <<"create_session", "update_user_login_time", "log_action">>

\* POST /login with good credentials, failing at statement LoginSteps[k] of
\* create_user_session: login_user's `except DatabaseError` answers 500
login_user_fail(u, k) ==
    /\ failures < MaxFailures
    /\ failures' = failures + 1
    /\ authenticate_user(users, u, TRUE) # NoCaller
    /\ users[u].status \notin {"suspended", "inactive"}
    /\ resp' = Resp("login", 500, LoginSteps[k], NoCaller)
    /\ IF k = 1
       THEN UNCHANGED <<sessions, nextSessionId, users>>
       ELSE /\ nextSessionId <= MaxSessions
            /\ ~(uniqueTokenHash /\
                   \E s \in sessions : s.token_hash = NewSession(u, now).token_hash)
            /\ sessions' = sessions \cup {NewSession(u, now)}
            /\ nextSessionId' = nextSessionId + 1
            /\ users' = IF k = 2 THEN users
                        ELSE [users EXCEPT ![u].last_login = Some(now)]
    /\ UNCHANGED <<now, nextUserId, issued, audit, requests, nextRequestId, pc,
                   reviewGrants, uniqueTokenHash, auditCap,
                   password_hash, password_reset_tokens, nextResetTokenId, resetUpdates, profile, loggedOut>>

\* POST /logout failing at log_action, after delete_session has committed:
\* `except Exception` answers 500
logout_audit_fail(t) ==
    LET g == get_current_user(t) IN
    /\ failures < MaxFailures
    /\ failures' = failures + 1
    /\ g.code = 200
    /\ sessions' = delete_session(sessions, hash_token(t))
    /\ loggedOut' = loggedOut \cup {t}
    /\ resp' = Resp("logout", 500, "log_action", g.user_id)
    /\ UNCHANGED <<now, users, nextUserId, nextSessionId, issued, requests,
                   nextRequestId, audit, pc, reviewGrants, uniqueTokenHash, auditCap,
                   password_hash, password_reset_tokens, nextResetTokenId, resetUpdates, profile>>

\* POST /request-permission failing at log_action, after create_request has
\* committed
request_permission_audit_fail(p) ==
    /\ failures < MaxFailures
    /\ failures' = failures + 1
    /\ pc[p].step = "req_insert"
    /\ users[pc[p].caller].exists
    /\ requests' = requests \cup {NewRequest(pc[p].caller)}
    /\ nextRequestId' = nextRequestId + 1
    /\ resp' = Resp("request_permission", 500, "log_action", pc[p].caller)
    /\ pc' = [pc EXCEPT ![p] = Idle]
    /\ UNCHANGED <<now, users, nextUserId, sessions, nextSessionId, issued, audit,
                   reviewGrants, uniqueTokenHash, auditCap,
                   password_hash, password_reset_tokens, nextResetTokenId, resetUpdates, profile, loggedOut>>

\* POST /admin/review-request failing at log_action, after review_request and,
\* for an approval with a duration, grant_permission have committed
review_audit_fail(p) ==
    /\ failures < MaxFailures
    /\ failures' = failures + 1
    /\ pc[p].step \in {"rev_update", "rev_grant"}
    /\ IF pc[p].step = "rev_update"
       THEN /\ get_request_by_id(requests, pc[p].rid) # {}
            /\ ~review_grants(pc[p].approved, pc[p].dur)
            /\ requests' = review_request(requests, pc[p].rid, pc[p].approved,
                                          pc[p].caller, pc[p].dur)
            /\ UNCHANGED <<users, reviewGrants>>
       ELSE /\ users' = grant_permission(users, pc[p].target, pc[p].dur,
                                         pc[p].caller, now)
            /\ reviewGrants' = IF users[pc[p].target].exists
                               THEN [reviewGrants EXCEPT ![pc[p].rid] = @ + 1]
                               ELSE reviewGrants
            /\ requests' = requests
    /\ resp' = Resp("review", 500, "log_action", pc[p].caller)
    /\ pc' = [pc EXCEPT ![p] = Idle]
    /\ UNCHANGED <<now, nextUserId, sessions, nextSessionId, issued, nextRequestId,
                   audit, uniqueTokenHash, auditCap,
                   password_hash, password_reset_tokens, nextResetTokenId, resetUpdates, profile, loggedOut>>

\* PUT /admin/users/{u}/permission failing at log_action, after
\* update_user_permission has committed
update_user_permission_audit_fail(t, u, days) ==
    LET g == get_current_admin_user(t) IN
    /\ failures < MaxFailures
    /\ failures' = failures + 1
    /\ g.code = 200
    /\ validate_days(days)
    /\ users[u].exists
    /\ users[u].role # "admin"
    /\ users' = update_user_permission(users, u, days, g.user_id, now)
    /\ resp' = Resp("permission", 500, "log_action", g.user_id)
    /\ UNCHANGED <<now, nextUserId, sessions, nextSessionId, issued, requests,
                   nextRequestId, audit, pc, reviewGrants, uniqueTokenHash, auditCap,
                   password_hash, password_reset_tokens, nextResetTokenId, resetUpdates, profile, loggedOut>>

\* ------------------------------------------------ passwords and the profile
\* UserDatabase.update_password and update_user(password_hash=...): a digest
\* salted afresh replaces the stored one
update_password(pw, user_id) == [pw EXCEPT ![user_id] = @ + 1]

\* the statement of update_password, had it also deleted the user's sessions
sessions_after_password_update_revoking(ss, user_id) ==
    {s \in ss : s.user_id # user_id}

\* user_sessions after the statement of update_password: it names users alone
sessions_after_password_update(ss, user_id) == ss

\* PasswordResetDatabase.create_reset_token
create_reset_token(rts, user_id, token, t) ==
    {r \in rts : ~(r.user_id = user_id \/ r.expires_at < t)}
        \cup {[token |-> token, user_id |-> user_id,
               expires_at |-> t + ResetTokenHours, used |-> FALSE]}

\* PasswordResetDatabase.verify_reset_token: the rows the SELECT returns
verify_reset_token(rts, us, token, t) ==
    {r \in rts : /\ r.token = token
                 /\ r.expires_at > t
                 /\ r.used = FALSE
                 /\ us[r.user_id].exists}

\* PasswordResetDatabase.mark_token_used
mark_token_used(rts, token) ==
    {IF r.token = token THEN [r EXCEPT !.used = TRUE] ELSE r : r \in rts}

\* UserDatabase.get_user_by_email
get_user_by_email(us, pf, email) ==
    {u \in UserIds : us[u].exists /\ pf[u].email = email}

\* UserDatabase.get_user_by_username
get_user_by_username(us, pf, username) ==
    {u \in UserIds : us[u].exists /\ pf[u].username = username}

\* the addresses a reset is asked for: those registered and one that is not
Emails == 1..3

\* POST /forgot-password for an address; emailOk is the mail service's answer
forgot_password(email, emailOk) ==
    LET found == get_user_by_email(users, profile, email)
        user_id == CHOOSE u \in found : TRUE
        token == nextResetTokenId
        created == create_reset_token(password_reset_tokens, user_id, token, now)
    IN
    /\ AuditRoom
    /\ nextResetTokenId <= MaxResetTokens
    /\ IF found = {}
       THEN /\ resp' = Resp("forgot_password", 200, "ok", NoCaller)
            /\ UNCHANGED <<password_reset_tokens, nextResetTokenId, audit>>
       ELSE IF ~emailOk
       THEN /\ password_reset_tokens' = mark_token_used(created, token)
            /\ nextResetTokenId' = nextResetTokenId + 1
            /\ resp' = Resp("forgot_password", 500, "mail_failed", NoCaller)
            /\ UNCHANGED audit
       ELSE /\ password_reset_tokens' = created
            /\ nextResetTokenId' = nextResetTokenId + 1
            /\ audit' = log_action(audit, user_id, "password_reset_request")
            /\ resp' = Resp("forgot_password", 200, "ok", NoCaller)
    /\ UNCHANGED <<now, users, nextUserId, sessions, nextSessionId, issued, requests,
                   nextRequestId, pc, reviewGrants, uniqueTokenHash, auditCap,
                   password_hash, resetUpdates, profile, failures, loggedOut>>

\* POST /reset-password, first statement: verify_reset_token
reset_password_verify(p, token) ==
    LET rows == verify_reset_token(password_reset_tokens, users, token, now)
        token_info == CHOOSE r \in rows : TRUE
    IN
    /\ pc[p].step = "idle"
    /\ AuditRoom
    /\ IF rows = {}
       THEN /\ resp' = Resp("reset_password", 400, "invalid_token", NoCaller)
            /\ UNCHANGED pc
       ELSE /\ pc' = [pc EXCEPT ![p] = [Idle EXCEPT !.step = "reset_update",
                                                   !.rid = token,
                                                   !.target = token_info.user_id]]
            /\ UNCHANGED resp
    /\ UNCHANGED <<now, users, nextUserId, sessions, nextSessionId, issued, requests,
                   nextRequestId, audit, reviewGrants, uniqueTokenHash, auditCap,
                   password_hash, password_reset_tokens, nextResetTokenId,
                   resetUpdates, profile, failures, loggedOut>>

\* POST /reset-password, get_user_by_id and update_password
reset_password_update(p) ==
    LET user_id == pc[p].target IN
    /\ pc[p].step = "reset_update"
    /\ IF ~users[user_id].exists
       THEN /\ resp' = Resp("reset_password", 404, "no_user", NoCaller)
            /\ pc' = [pc EXCEPT ![p] = Idle]
            /\ UNCHANGED <<password_hash, sessions, resetUpdates>>
       ELSE /\ password_hash[user_id] < MaxPasswords
            /\ password_hash' = update_password(password_hash, user_id)
            /\ sessions' = sessions_after_password_update(sessions, user_id)
            /\ resetUpdates' = [resetUpdates EXCEPT ![pc[p].rid] = @ + 1]
            /\ pc' = [pc EXCEPT ![p].step = "reset_mark"]
            /\ UNCHANGED resp
    /\ UNCHANGED <<now, users, nextUserId, nextSessionId, issued, requests,
                   nextRequestId, audit, reviewGrants, uniqueTokenHash, auditCap,
                   password_reset_tokens, nextResetTokenId, profile, failures,
                   loggedOut>>

\* POST /reset-password, mark_token_used and the audit entry
reset_password_mark(p) ==
    /\ pc[p].step = "reset_mark"
    /\ password_reset_tokens' = mark_token_used(password_reset_tokens, pc[p].rid)
    /\ audit' = log_action(audit, pc[p].target, "password_reset_completed")
    /\ resp' = Resp("reset_password", 200, "ok", pc[p].target)
    /\ pc' = [pc EXCEPT ![p] = Idle]
    /\ UNCHANGED <<now, users, nextUserId, sessions, nextSessionId, issued, requests,
                   nextRequestId, reviewGrants, uniqueTokenHash, auditCap,
                   password_hash, nextResetTokenId, resetUpdates, profile, failures,
                   loggedOut>>

\* POST /change-password (the route registered first); curOk is verify_password
change_password(t, curOk) ==
    LET g == get_current_user(t) IN
    /\ AuditRoom
    /\ IF g.code # 200
       THEN /\ resp' = Resp("change_password", g.code, g.detail, NoCaller)
            /\ UNCHANGED <<password_hash, sessions, audit>>
       ELSE IF ~curOk
       THEN /\ resp' = Resp("change_password", 400, "wrong_password", g.user_id)
            /\ UNCHANGED <<password_hash, sessions, audit>>
       ELSE /\ password_hash[g.user_id] < MaxPasswords
            /\ password_hash' = update_password(password_hash, g.user_id)
            /\ sessions' = sessions_after_password_update(sessions, g.user_id)
            /\ audit' = log_action(audit, g.user_id, "password_change")
            /\ resp' = Resp("change_password", 200, "ok", g.user_id)
    /\ UNCHANGED <<now, users, nextUserId, nextSessionId, issued, requests,
                   nextRequestId, pc, reviewGrants, uniqueTokenHash, auditCap,
                   password_reset_tokens, nextResetTokenId, resetUpdates, profile,
                   failures, loggedOut>>

\* the bodies of PUT /profile: every field of UserUpdate is optional
StatusBodies == {Null, Some("active"), Some("suspended")}
UserUpdate ==
    [username : {Null, Some(2), Some(3)}, full_name : {Null, Some(1)},
     email : {Null, Some(3)}, status : StatusBodies]

\* update_user_profile forwarding the body's status as well
update_data_with_status(user_data) == user_data

\* update_user_profile's update_data: the columns it hands to update_user
update_data(user_data) == [user_data EXCEPT !.status = Null]

\* UserDatabase.update_user's SET clauses for username, full_name and email
update_user_columns(pf, user_id, data) ==
    [pf EXCEPT ![user_id] =
        [username |-> IF data.username = Null THEN @.username ELSE Val(data.username),
         full_name |-> IF data.full_name = Null THEN @.full_name ELSE Val(data.full_name),
         email |-> IF data.email = Null THEN @.email ELSE Val(data.email)]]

\* PUT /profile
update_user_profile(t, user_data) ==
    LET g == get_current_user(t)
        data == update_data(user_data)
        NoFields == [username |-> Null, full_name |-> Null, email |-> Null,
                     status |-> Null]
    IN
    /\ AuditRoom
    /\ IF g.code # 200
       THEN /\ resp' = Resp("profile_update", g.code, g.detail, NoCaller)
            /\ UNCHANGED <<users, profile, audit>>
       ELSE IF /\ user_data.username # Null
               /\ get_user_by_username(users, profile, Val(user_data.username))
                      \ {g.user_id} # {}
       THEN /\ resp' = Resp("profile_update", 400, "username_taken", g.user_id)
            /\ UNCHANGED <<users, profile, audit>>
       ELSE IF /\ user_data.email # Null
               /\ get_user_by_email(users, profile, Val(user_data.email))
                      \ {g.user_id} # {}
       THEN /\ resp' = Resp("profile_update", 400, "email_taken", g.user_id)
            /\ UNCHANGED <<users, profile, audit>>
       ELSE IF data = NoFields
       THEN /\ resp' = Resp("profile_update", 200, "ok", g.user_id)
            /\ UNCHANGED <<users, profile, audit>>
       ELSE /\ users' = IF data.status = Null THEN users
                        ELSE update_user(users, g.user_id, Val(data.status))
            /\ profile' = update_user_columns(profile, g.user_id, data)
            /\ audit' = log_action(audit, g.user_id, "user_profile_update")
            /\ resp' = Resp("profile_update", 200, "ok", g.user_id)
    /\ UNCHANGED <<now, nextUserId, sessions, nextSessionId, issued, requests,
                   nextRequestId, pc, reviewGrants, uniqueTokenHash, auditCap,
                   password_hash, password_reset_tokens, nextResetTokenId,
                   resetUpdates, failures, loggedOut>>

DaysInputs == {-2, -1, 0, 1}
StatusInputs == UserStatus \cup {"unset"}

Next ==
    \/ \E dup \in BOOLEAN : register_user(dup)
    \/ \E u \in UserIds, pwOk \in BOOLEAN : login_user(u, pwOk)
    \/ \E t \in Presentable : logout_user_endpoint(t)
    \/ \E t \in Presentable : get_user_profile(t)
    \/ \E t \in Presentable : active_route(t)
    \/ \E t \in Presentable : get_admin_stats(t)
    \/ \E p \in Procs, t \in issued : request_permission_check(p, t)
    \/ \E p \in Procs : request_permission_insert(p)
    \/ \E p \in Procs, t \in issued, rid \in 1..MaxRequests, approved \in BOOLEAN,
          dur \in DurationInputs :
            review_check(p, t, rid, approved, dur)
    \/ \E p \in Procs : review_update(p)
    \/ \E p \in Procs : review_grant(p)
    \/ \E p \in Procs : review_grant_fail(p)
    \/ \E t \in issued, u \in UserIds, days \in DaysInputs :
            update_user_permission_route(t, u, days)
    \/ \E t \in issued, u \in UserIds, st \in StatusInputs : update_user_status(t, u, st)
    \/ \E t \in issued, u \in UserIds : delete_user(t, u)
    \/ \E t \in issued, rid \in 1..MaxRequests : delete_permission_request(t, rid)
    \/ cleanup(now)
    \/ \E t \in issued : request_permission_extension(t)
    \/ \E u \in UserIds, k \in DOMAIN LoginSteps : login_user_fail(u, k)
    \/ \E t \in issued : logout_audit_fail(t)
    \/ \E p \in Procs : request_permission_audit_fail(p)
    \/ \E p \in Procs : review_audit_fail(p)
    \/ \E t \in issued, u \in UserIds, days \in DaysInputs :
            update_user_permission_audit_fail(t, u, days)
    \/ \E email \in Emails, emailOk \in BOOLEAN : forgot_password(email, emailOk)
    \/ \E p \in Procs, token \in 1..MaxResetTokens : reset_password_verify(p, token)
    \/ \E p \in Procs : reset_password_update(p)
    \/ \E p \in Procs : reset_password_mark(p)
    \/ \E t \in Presentable, curOk \in BOOLEAN : change_password(t, curOk)
    \/ \E t \in Presentable, user_data \in UserUpdate : update_user_profile(t, user_data)
    \/ Tick

Spec == Init /\ [][Next]_vars

\* sessions and the access gates, with the admin's direct actions on users
NextSession ==
    \/ \E dup \in BOOLEAN : register_user(dup)
    \/ \E u \in UserIds, pwOk \in BOOLEAN : login_user(u, pwOk)
    \/ \E t \in Presentable : logout_user_endpoint(t)
    \/ \E t \in Presentable : get_user_profile(t)
    \/ \E t \in Presentable : active_route(t)
    \/ \E t \in Presentable : get_admin_stats(t)
    \/ \E t \in issued, u \in UserIds, days \in DaysInputs :
            update_user_permission_route(t, u, days)
    \/ \E t \in issued, u \in UserIds, st \in StatusInputs : update_user_status(t, u, st)
    \/ \E t \in issued, u \in UserIds : delete_user(t, u)
    \/ cleanup(now)
    \/ Tick

SpecSession == Init /\ [][NextSession]_vars

\* the permission workflow: requests, reviews and grants
NextWorkflow ==
    \/ \E dup \in BOOLEAN : register_user(dup)
    \/ \E u \in UserIds, pwOk \in BOOLEAN : login_user(u, pwOk)
    \/ \E p \in Procs, t \in issued : request_permission_check(p, t)
    \/ \E p \in Procs : request_permission_insert(p)
    \/ \E p \in Procs, t \in issued, rid \in 1..MaxRequests, approved \in BOOLEAN,
          dur \in DurationInputs :
            review_check(p, t, rid, approved, dur)
    \/ \E p \in Procs : review_update(p)
    \/ \E p \in Procs : review_grant(p)
    \/ \E p \in Procs : review_grant_fail(p)
    \/ \E t \in issued, u \in UserIds, days \in DaysInputs :
            update_user_permission_route(t, u, days)
    \/ \E t \in issued, u \in UserIds, st \in StatusInputs : update_user_status(t, u, st)
    \/ \E t \in issued, rid \in 1..MaxRequests : delete_permission_request(t, rid)
    \/ Tick

SpecWorkflow == Init /\ [][NextWorkflow]_vars


\* requests and reviews alone
NextRequest ==
    \/ \E dup \in BOOLEAN : register_user(dup)
    \/ \E u \in UserIds, pwOk \in BOOLEAN : login_user(u, pwOk)
    \/ \E p \in Procs, t \in issued : request_permission_check(p, t)
    \/ \E p \in Procs : request_permission_insert(p)
    \/ \E p \in Procs, t \in issued, rid \in 1..MaxRequests, approved \in BOOLEAN,
          dur \in DurationInputs :
            review_check(p, t, rid, approved, dur)
    \/ \E p \in Procs : review_update(p)
    \/ \E p \in Procs : review_grant(p)
    \/ \E p \in Procs : review_grant_fail(p)
    \/ \E t \in issued, rid \in 1..MaxRequests : delete_permission_request(t, rid)
    \/ Tick

SpecRequest == Init /\ [][NextRequest]_vars

\* reviews of the requests made at one reading of the clock
NextReview ==
    \/ \E dup \in BOOLEAN : register_user(dup)
    \/ \E u \in UserIds, pwOk \in BOOLEAN : login_user(u, pwOk)
    \/ \E p \in Procs, t \in issued : request_permission_check(p, t)
    \/ \E p \in Procs : request_permission_insert(p)
    \/ \E p \in Procs, t \in issued, rid \in 1..MaxRequests, approved \in BOOLEAN,
          dur \in DurationInputs :
            review_check(p, t, rid, approved, dur)
    \/ \E p \in Procs : review_update(p)
    \/ \E p \in Procs : review_grant(p)
    \/ \E t \in issued, rid \in 1..MaxRequests : delete_permission_request(t, rid)

SpecReview == Init /\ [][NextReview]_vars

\* the handlers with the failures of single statements
NextFailure ==
    \/ \E dup \in BOOLEAN : register_user(dup)
    \/ \E u \in UserIds, pwOk \in BOOLEAN : login_user(u, pwOk)
    \/ \E u \in UserIds, k \in DOMAIN LoginSteps : login_user_fail(u, k)
    \/ \E t \in issued : logout_user_endpoint(t)
    \/ \E t \in issued : logout_audit_fail(t)
    \/ \E p \in Procs, t \in issued : request_permission_check(p, t)
    \/ \E p \in Procs : request_permission_insert(p)
    \/ \E p \in Procs : request_permission_audit_fail(p)
    \/ \E p \in Procs, t \in issued, rid \in 1..MaxRequests, approved \in BOOLEAN,
          dur \in DurationInputs :
            review_check(p, t, rid, approved, dur)
    \/ \E p \in Procs : review_update(p)
    \/ \E p \in Procs : review_grant(p)
    \/ \E p \in Procs : review_audit_fail(p)
    \/ \E t \in issued, u \in UserIds, days \in DaysInputs :
            update_user_permission_route(t, u, days)
    \/ \E t \in issued, u \in UserIds, days \in DaysInputs :
            update_user_permission_audit_fail(t, u, days)

SpecFailure == Init /\ [][NextFailure]_vars

\* from registration to access: register, login, the active gate, one request and
\* its review with the preset of one month
NextEndToEnd ==
    \/ register_user(FALSE)
    \/ \E u \in UserIds : login_user(u, TRUE)
    \/ \E t \in issued : active_route(t)
    \/ \E p \in Procs, t \in issued : request_permission_check(p, t)
    \/ \E p \in Procs : request_permission_insert(p)
    \/ \E p \in Procs, t \in issued, rid \in 1..MaxRequests, approved \in BOOLEAN :
            review_check(p, t, rid, approved, "1month")
    \/ \E p \in Procs : review_update(p)
    \/ \E p \in Procs : review_grant(p)
    \/ Tick

SpecEndToEnd == InitLong /\ [][NextEndToEnd]_vars

\* extensions of a permission, requested one call after the other
NextExtension ==
    \/ register_user(FALSE)
    \/ \E u \in UserIds : login_user(u, TRUE)
    \/ \E t \in issued, u \in UserIds, st \in StatusInputs : update_user_status(t, u, st)
    \/ \E t \in issued : request_permission_extension(t)
    \/ \E p \in Procs, t \in issued : request_permission_check(p, t)
    \/ \E p \in Procs : request_permission_insert(p)
    \/ \E p \in Procs, t \in issued, rid \in 1..MaxRequests, approved \in BOOLEAN :
            review_check(p, t, rid, approved, "1week")
    \/ \E p \in Procs : review_update(p)
    \/ \E p \in Procs : review_grant(p)

SpecExtension == InitLonger /\ [][NextExtension]_vars

\* passwords changed and reset while sessions are live
NextPassword ==
    \/ register_user(FALSE)
    \/ \E u \in UserIds : login_user(u, TRUE)
    \/ \E email \in Emails, emailOk \in BOOLEAN : forgot_password(email, emailOk)
    \/ \E p \in Procs, token \in 1..MaxResetTokens : reset_password_verify(p, token)
    \/ \E p \in Procs : reset_password_update(p)
    \/ \E p \in Procs : reset_password_mark(p)
    \/ \E t \in Presentable, curOk \in BOOLEAN : change_password(t, curOk)
    \/ Tick

SpecPassword == Init /\ [][NextPassword]_vars

\* status edits by an admin while the users' sessions are live
NextStatus ==
    \/ register_user(FALSE)
    \/ \E u \in UserIds : login_user(u, TRUE)
    \/ \E t \in Presentable : get_user_profile(t)
    \/ \E t \in issued, u \in UserIds, st \in StatusInputs : update_user_status(t, u, st)
    \/ Tick

SpecStatus == InitLong /\ [][NextStatus]_vars

\* the self-service profile update, next to the admin's status edits
NextProfile ==
    \/ register_user(FALSE)
    \/ \E u \in UserIds : login_user(u, TRUE)
    \/ \E t \in Presentable, user_data \in UserUpdate : update_user_profile(t, user_data)
    \/ \E t \in issued, u \in UserIds, st \in StatusInputs : update_user_status(t, u, st)
    \/ Tick

SpecProfile == Init /\ [][NextProfile]_vars

\* ================================================================ claims

\* C1: once logout(t) has run for a token t that login returned, every later
\* run of get_current_user with t is rejected with 401.
C1_LoggedOutTokenRejected ==
    \A t \in loggedOut : get_current_user(t).code = 401

\* C2: any two successful logins of a user leave two distinct session rows
\* with distinct token fingerprints (so that logging one out leaves the other).
C2_DistinctFingerprints ==
    \A s1, s2 \in sessions : s1.id # s2.id => s1.token_hash # s2.token_hash

\* C3: no grant ever changes permission_granted_at, permission_expires_at,
\* granted_by or status of a user with role admin.
C3_AdminWindowUntouched ==
    \A u \in UserIds :
        (users[u].exists /\ users[u].role = "admin") =>
            /\ users[u].permission_granted_at = AdminRow.permission_granted_at
            /\ users[u].permission_expires_at = AdminRow.permission_expires_at
            /\ users[u].granted_by = AdminRow.granted_by
            /\ users[u].status = AdminRow.status

\* C4: in every reachable state a request is approved only if the grant of its
\* review has been applied, and a review's grant has been applied only if the
\* request is approved.
C4_ApprovedIffGranted ==
    \A r \in requests :
        /\ r.status = "approved" => reviewGrants[r.id] >= 1
        /\ reviewGrants[r.id] >= 1 => r.status = "approved"

\* C5: the store never holds two pending permission requests of one user.
C5_OnePendingPerUser ==
    \A u \in UserIds :
        Cardinality({r \in requests : r.user_id = u /\ r.status = "pending"}) <= 1

\* C6: at most one grant is applied to the requesting user for one request,
\* whatever the interleaving of the reviews of that request.
C6_OneGrantPerRequest ==
    \A rid \in 1..MaxRequests : reviewGrants[rid] <= 1


\* the conditions C7 names, read off the tables at request time
C7_Conditions(t) ==
    /\ t.sig = "ok"
    /\ t.exp > now
    /\ \E s \in sessions : s.token_hash = hash_token(t) /\ s.expires_at > now
    /\ users[t.user_id].exists
    /\ users[t.user_id].status \in {"active", "pending"}

\* C7: get_current_user returns the principal exactly when the token verifies
\* and is unexpired, a session row with its fingerprint has expires_at > now,
\* the user exists and the user's status is active or pending; otherwise 401.
C7_ResolverAcceptsIff ==
    [][\A t \in Presentable :
        (resp'.op = "profile" /\ get_user_profile(t)) =>
            IF C7_Conditions(t)
            THEN resp'.code = 200 /\ resp'.caller = t.user_id
            ELSE resp'.code = 401]_vars

\* a pending user's token has been accepted by the resolver
C7_Witness ==
    /\ resp.op = "profile"
    /\ resp.code = 200
    /\ users[resp.caller].status = "pending"

\* the outcome C8 names for a principal
C8_Expected(user) ==
    IF user.role = "admin" THEN 200
    ELSE IF user.status # "active" THEN 403
    ELSE IF user.permission_expires_at = Null THEN 200
    ELSE IF Val(user.permission_expires_at) <= now THEN 403
    ELSE 200

\* C8: on a principal that passed the base resolver, get_current_active_user
\* accepts every admin, rejects a non-admin whose status is not active (403),
\* rejects an active non-admin whose permission_expires_at is set and <= now
\* (403), and accepts an active non-admin whose expiry is null or in the future.
C8_ActiveGate ==
    [][\A t \in Presentable :
        (resp'.op = "active_route" /\ active_route(t)
            /\ get_current_user(t).code = 200) =>
            resp'.code = C8_Expected(users[t.user_id])]_vars

\* an active non-admin was rejected at the very instant the permission expired
C8_Witness ==
    /\ resp.op = "active_route"
    /\ resp.code = 403
    /\ resp.detail = "permission_expired"
    /\ \E u \in UserIds :
        /\ users[u].exists /\ users[u].role = "user" /\ users[u].status = "active"
        /\ users[u].permission_expires_at = Some(now)

\* C9: a successful direct grant on a non-admin sets granted_by to the admin
\* and permission_granted_at to now, and: days = -1 gives expires_at null and
\* status active; days = 0 gives expires_at = now and status inactive;
\* days > 0 gives expires_at = now + days and status active.
C9_DirectGrant ==
    [][\A t \in issued, u \in UserIds, days \in DaysInputs :
        (resp'.op = "permission" /\ resp'.code = 200
            /\ update_user_permission_route(t, u, days)) =>
            /\ users'[u].granted_by = Some(t.user_id)
            /\ users'[u].permission_granted_at = Some(now)
            /\ days = -1 => /\ users'[u].permission_expires_at = Null
                            /\ users'[u].status = "active"
            /\ days = 0 => /\ users'[u].permission_expires_at = Some(now)
                           /\ users'[u].status = "inactive"
            /\ days > 0 => /\ users'[u].permission_expires_at
                                = Some(now + days * HoursPerDay)
                           /\ users'[u].status = "active"]_vars

\* a days = 0 grant has been applied to a non-admin
C9_Witness ==
    /\ resp.op = "permission"
    /\ resp.code = 200
    /\ \E u \in UserIds :
        /\ users[u].role = "user" /\ users[u].status = "inactive"
        /\ users[u].permission_expires_at = Some(now)
        /\ users[u].granted_by = Some(resp.caller)

\* C10: request_permission by a user who already has a pending request fails
\* with 400 and inserts no permission_requests row and no audit entry.
C10_SecondRequestConflict ==
    [][\A p \in Procs, t \in issued :
        ( /\ pc[p].step = "idle"
          /\ get_current_user(t).code = 200
          /\ \E r \in requests : r.user_id = t.user_id /\ r.status = "pending"
          /\ request_permission_check(p, t) ) =>
            /\ resp'.op = "request_permission"
            /\ resp'.code = 400
            /\ requests' = requests
            /\ audit' = audit
            /\ pc' = pc]_vars

\* a second request was refused while the first is still pending
C10_Witness ==
    /\ resp.op = "request_permission"
    /\ resp.code = 400
    /\ \E r \in requests : r.user_id = resp.caller /\ r.status = "pending"

\* C11: a review that has passed the admin gate and the body's validation goes on
\* to change state only when request_id names an existing request whose status
\* is pending: for a missing id it answers 404, for a request already approved
\* or rejected it answers 400, and in both cases no request row, no user row and
\* no audit entry is changed and no write of the review is started.
C11_ReviewOnlyPending ==
    [][\A p \in Procs :
        ( /\ pc[p].step = "idle"
          /\ \/ pc' = pc /\ resp' # resp /\ resp'.op = "review"
             \/ pc'[p].step = "rev_update" ) =>
        \A t \in issued :
        (get_current_admin_user(t).code = 200) =>
        \A rid \in 1..MaxRequests, approved \in BOOLEAN, dur \in DurationInputs :
        (PermissionReview(approved, dur) /\ review_check(p, t, rid, approved, dur)) =>
            LET found == get_request_by_id(requests, rid) IN
            IF found = {} \/ \E r \in found : r.status # "pending"
            THEN /\ resp'.op = "review"
                 /\ resp'.code = IF found = {} THEN 404 ELSE 400
                 /\ requests' = requests
                 /\ users' = users
                 /\ audit' = audit
                 /\ reviewGrants' = reviewGrants
                 /\ pc' = pc
            ELSE pc'[p].step = "rev_update"]_vars

\* a review of an already reviewed request was refused
C11_Witness ==
    /\ resp.op = "review"
    /\ resp.code = 400
    /\ resp.detail = "already_reviewed"
    /\ \E r \in requests : r.status # "pending" /\ r.reviewed_by # Null

\* C12: no request ever has status approved with a null approved_duration (a
\* review with approved = true and no approved_duration is refused by the
\* validation and leaves the request pending).
C12_ApprovedHasDuration ==
    \A r \in requests : r.status = "approved" => r.approved_duration # NoDuration

\* C13: the write of a review with approved = false on a request that is pending
\* rewrites only that request's review fields (status = rejected, reviewed_by
\* and the approved_duration of the body), appends one audit entry and answers
\* 200; every users row, and so the requesting user's status,
\* permission_granted_at, permission_expires_at and granted_by, is unchanged.
C13_RejectFrame ==
    [][\A p \in Procs :
        ( /\ pc[p].step = "rev_update"
          /\ ~pc[p].approved
          /\ \E r \in requests : r.id = pc[p].rid /\ r.status = "pending"
          /\ review_update(p) ) =>
            /\ users' = users
            /\ reviewGrants' = reviewGrants
            /\ requests' = {IF r.id = pc[p].rid
                              THEN [r EXCEPT !.status = "rejected",
                                             !.reviewed_by = Some(pc[p].caller),
                                             !.approved_duration = pc[p].dur]
                              ELSE r : r \in requests}
            /\ audit' = audit (+) SetToBag({<<pc[p].caller, "permission_request_review">>})
            /\ resp' = Resp("review", 200, "rejected", pc[p].caller)
            /\ pc'[p].step = "idle"]_vars

\* a rejection that carried a duration has been written, and its requester still
\* has no grant
C13_Witness ==
    /\ resp.op = "review"
    /\ resp.detail = "rejected"
    /\ \E r \in requests :
        /\ r.status = "rejected"
        /\ r.reviewed_by = Some(resp.caller)
        /\ r.approved_duration \in ReviewDurations
        /\ users[r.user_id].permission_granted_at = Null
        /\ users[r.user_id].granted_by = Null
    /\ BagIn(<<resp.caller, "permission_request_review">>, audit)

\* C14: every rejection by get_current_user is the same response: whatever made
\* the resolver refuse the token, GET /profile answers 401 with the one detail
\* message of a failed authentication.
C14_UniformRejection ==
    (resp.op = "profile" /\ resp.code # 200) =>
        (resp.code = 401 /\ resp.detail = "auth_failed")

\* C15: a login under a username that does not exist and a login under an
\* existing username with a wrong password get the same response (401 with the
\* one message for bad credentials) and change nothing: no session row, no
\* last_login, no audit entry, no token.
C15_SameRefusal ==
    [][\A u \in UserIds, pwOk \in BOOLEAN :
        ( /\ resp'.op = "login"
          /\ ~users[u].exists \/ ~pwOk
          /\ login_user(u, pwOk) ) =>
            /\ resp' = Resp("login", 401, "bad_credentials", NoCaller)
            /\ sessions' = sessions
            /\ users' = users
            /\ audit' = audit
            /\ issued' = issued
            /\ nextSessionId' = nextSessionId]_vars

\* a login was refused for bad credentials while one username exists and the
\* other does not
C15_Witness ==
    /\ resp.op = "login"
    /\ resp.code = 401
    /\ \E u \in UserIds : ~users[u].exists
    /\ \E u \in UserIds : users[u].exists /\ users[u].status \in {"active", "pending"}

\* C16: login is atomic: a login that does not answer 200, whichever of its
\* statements (session insert, last-login update, audit append) failed, returns
\* no token and leaves no session row behind.
C16_LoginAtomic ==
    [][\A u \in UserIds :
        ( /\ resp'.op = "login"
          /\ resp'.code # 200
          /\ \/ \E pwOk \in BOOLEAN : login_user(u, pwOk)
             \/ \E k \in DOMAIN LoginSteps : login_user_fail(u, k) ) =>
            /\ issued' = issued
            /\ sessions' = sessions]_vars

\* C17: a failure of AuditDatabase.log_action does not abort the handler: login,
\* logout, request creation, review and grant answer 200 although their audit
\* insert failed.
C17_AuditFailureSwallowed ==
    [][( /\ failures' # failures
         /\ \/ \E u \in UserIds : login_user_fail(u, Len(LoginSteps))
            \/ \E t \in issued : logout_audit_fail(t)
            \/ \E p \in Procs : request_permission_audit_fail(p)
            \/ \E p \in Procs : review_audit_fail(p)
            \/ \E t \in issued, u \in UserIds, days \in DaysInputs :
                    update_user_permission_audit_fail(t, u, days) ) =>
            resp'.code = 200]_vars

\* C18: a run of the base principal resolver, of the active-access gate or of
\* the admin gate, whether it accepts or rejects, changes no stored state: every
\* users row (status and permission window), every session row, every request
\* and the audit log are the same after it as before.
C18_GatesReadOnly ==
    [][\A t \in Presentable :
        ( \/ resp'.op = "profile" /\ get_user_profile(t)
          \/ resp'.op = "active_route" /\ active_route(t)
          \/ resp'.op = "admin_stats" /\ get_admin_stats(t) ) =>
            /\ users' = users
            /\ sessions' = sessions
            /\ requests' = requests
            /\ audit' = audit]_vars

\* the active-access gate has refused a user with a live session whose granted
\* permission has run out, and the stored status is still active
C18_Witness ==
    /\ resp.op = "active_route"
    /\ resp.code = 403
    /\ resp.detail = "permission_expired"
    /\ \E u \in UserIds :
        /\ users[u].role = "user" /\ users[u].status = "active"
        /\ users[u].permission_expires_at # Null
        /\ Val(users[u].permission_expires_at) <= now
        /\ users[u].granted_by # Null
        /\ \E s \in sessions : s.user_id = u /\ s.expires_at > now

\* C19: no step deletes a user with role admin: whenever an admin exists,
\* UserDatabase.delete_user on it returns false and removes no user, session,
\* request or audit row, DELETE /admin/users on it is refused and changes no
\* table, and the admin exists, as an admin, after every step.
C19_AdminNeverDeleted ==
    [][\A u \in UserIds :
        (users[u].exists /\ users[u].role = "admin") =>
            LET d == UserDatabase_delete_user(users, sessions, requests, audit, u) IN
            /\ ~d.ok
            /\ d.users = users /\ d.sessions = sessions
            /\ d.requests = requests /\ d.audit = audit
            /\ users'[u].exists /\ users'[u].role = "admin"
            /\ \A t \in issued :
                (resp'.op = "delete_user" /\ delete_user(t, u)) =>
                    /\ resp'.code # 200
                    /\ users' = users /\ sessions' = sessions
                    /\ requests' = requests /\ audit' = audit]_vars

\* the deletion of the admin was asked for by an admin and refused, and the
\* admin is still there with its session
C19_Witness ==
    /\ resp = Resp("delete_user", 400, "admin_target", AdminId)
    /\ users[AdminId].exists
    /\ users[AdminId].role = "admin"
    /\ \E s \in sessions : s.user_id = AdminId

\* C20: a run of cleanup_expired_sessions removes only session rows with
\* expires_at <= now, none of which validate_session returns for any token, and
\* none of which carries the fingerprint a login made now would insert; so for
\* every token the outcome of get_current_user is the same after the run as
\* before it.
C20_CleanupInvisible ==
    [][(sessions' # sessions /\ cleanup(now)) =>
        /\ sessions' \subseteq sessions
        /\ \A s \in sessions \ sessions' :
            /\ s.expires_at <= now
            /\ s \notin validate_session(sessions, users, s.token_hash, now)
            /\ \A u \in UserIds : s.token_hash # NewSession(u, now).token_hash
        /\ \A t \in Presentable :
            /\ validate_session(sessions', users', hash_token(t), now')
                = validate_session(sessions, users, hash_token(t), now)
            /\ get_current_user(t)' = get_current_user(t)]_vars

\* garbage collection has removed an expired session while another session is
\* still live
C20_Witness ==
    /\ \E t \in issued :
        /\ t.exp <= now
        /\ \A s \in sessions : s.token_hash # hash_token(t)
        /\ t \notin loggedOut
        /\ users[t.user_id].exists
    /\ \E s \in sessions : s.expires_at > now

\* C21: a registration stores the new user with status pending; a pending
\* non-admin whose token passes get_current_user is refused by
\* get_current_active_user with 403 (not approved yet); and the grant of a review
\* that approves with "1month" leaves the requester active with
\* permission_expires_at one month after now, so that every token of the
\* requester that passed get_current_user before the grant passes
\* get_current_active_user after it.
C21_PendingToActive ==
    [][/\ (resp'.op = "register" /\ resp'.code = 200 /\ register_user(FALSE)) =>
            /\ users'[nextUserId].exists
            /\ users'[nextUserId].role = "user"
            /\ users'[nextUserId].status = "pending"
       /\ \A t \in issued :
            ( /\ users[t.user_id].role = "user"
              /\ users[t.user_id].status = "pending"
              /\ get_current_user(t).code = 200 ) =>
                get_current_active_user(t) = Forbidden("not_approved")
       /\ \A p \in Procs :
            ( /\ pc[p].step = "rev_grant"
              /\ pc[p].dur = "1month"
              /\ users[pc[p].target].exists
              /\ review_grant(p) ) =>
                /\ users'[pc[p].target].status = "active"
                /\ users'[pc[p].target].permission_expires_at
                        = Some(now + IntervalHours("1month"))
                /\ \A t \in issued :
                    (t.user_id = pc[p].target /\ get_current_user(t).code = 200) =>
                        get_current_active_user(t)'.code = 200]_vars

\* the user who registered, logged in once and was approved for one month at a
\* later reading of the clock has passed the active-access gate with that token
C21_Witness ==
    /\ resp = Resp("active_route", 200, "ok", 2)
    /\ users[2].status = "active"
    /\ users[2].permission_granted_at # Null
    /\ users[2].last_login # Null
    /\ Val(users[2].last_login) < Val(users[2].permission_granted_at)
    /\ users[2].permission_expires_at
            = Some(Val(users[2].permission_granted_at) + IntervalHours("1month"))
    /\ Cardinality({t \in issued : t.user_id = 2}) = 1
    /\ \E r \in requests :
        r.user_id = 2 /\ r.status = "approved" /\ r.approved_duration = "1month"

\* C22: a login with the right password is refused for a suspended user, and
\* succeeds for an inactive user: it answers 200, returns a token and inserts a
\* session row.
C22_InactiveLoginSucceeds ==
    [][\A u \in UserIds :
        (resp'.op = "login" /\ users[u].exists /\ login_user(u, TRUE)) =>
            /\ users[u].status = "suspended" =>
                (resp'.code # 200 /\ sessions' = sessions /\ issued' = issued)
            /\ (users[u].status = "inactive" /\ nextSessionId <= MaxSessions) =>
                /\ resp'.code = 200
                /\ sessions' # sessions
                /\ create_access_token(u, users[u].role, now) \in issued']_vars

\* C23: in every state, every non-admin user whose status is active has a grant
\* on record: permission_granted_at and granted_by are set.
C23_ActiveHasGrant ==
    \A u \in UserIds :
        (users[u].exists /\ users[u].role = "user" /\ users[u].status = "active") =>
            (users[u].permission_granted_at # Null /\ users[u].granted_by # Null)

\* C24: a call of request_permission_extension that has passed get_current_user
\* inserts one pending extension request when the caller's status is active and
\* the caller has no pending extension request, and otherwise answers 400 and
\* inserts nothing; with the calls made one after the other no user ever has
\* two pending extension requests.
C24_OnePendingExtension ==
    [][/\ \A t \in issued :
            ( /\ resp'.op = "extension"
              /\ get_current_user(t).code = 200
              /\ request_permission_extension(t) ) =>
                IF /\ users[t.user_id].status = "active"
                   /\ ~\E r \in requests : /\ r.user_id = t.user_id
                                           /\ r.status = "pending"
                                           /\ r.request_reason = "extension"
                THEN /\ resp'.code = 200
                     /\ requests' = requests \cup {NewExtensionRequest(t.user_id)}
                ELSE /\ resp'.code = 400
                     /\ requests' = requests
                     /\ audit' = audit
       /\ \A u \in UserIds :
            Cardinality({r \in requests' : /\ r.user_id = u
                                           /\ r.status = "pending"
                                           /\ r.request_reason = "extension"}) <= 1]_vars

\* a non-admin made active was refused a second extension while the first is
\* pending
C24_Witness ==
    /\ resp.op = "extension"
    /\ resp.code = 400
    /\ resp.detail = "pending_exists"
    /\ users[resp.caller].role = "user"
    /\ \E r \in requests : /\ r.user_id = resp.caller
                           /\ r.status = "pending"
                           /\ r.request_reason = "extension"

\* C25: inactive is a state to re-apply from: a user whose status is inactive
\* and who holds an unexpired token with a live session is accepted by
\* get_current_user, the gate in front of request_permission, and so can file
\* a new permission request.
C25_InactiveCanReapply ==
    \A t \in issued :
        ( /\ users[t.user_id].exists
          /\ users[t.user_id].status = "inactive"
          /\ verify_token(t, now) = "ok"
          /\ validate_session(sessions, users, hash_token(t), now) # {} ) =>
            get_current_user(t).code = 200

\* C26: a step of change_password or of reset_password that replaces a stored
\* password or marks a reset token used leaves the session rows as they were,
\* and every token the base principal resolver accepted before the step is
\* accepted after it.
C26_PasswordKeepsSessions ==
    [][(password_hash' # password_hash
            \/ password_reset_tokens' # password_reset_tokens) =>
        /\ sessions' = sessions
        /\ \A t \in Presentable :
               get_current_user(t).code = 200 => get_current_user(t)'.code = 200]_vars

\* a reset of the password has completed for a user whose password was changed
\* before, and a token that user logged in with is still accepted
C26_Witness ==
    /\ resp.op = "reset_password"
    /\ resp.code = 200
    /\ password_hash[resp.caller] = MaxPasswords
    /\ \E t \in issued :
           /\ t.user_id = resp.caller
           /\ get_current_user(t).code = 200

\* C27: no reset token has more than one update of a password made on its
\* behalf, however the calls of reset_password that present it interleave.
C27_ResetTokenOnce ==
    \A token \in 1..MaxResetTokens : resetUpdates[token] <= 1

\* C28: a status edit by an admin deletes no session row; while a user's status
\* is suspended or inactive every token of that user is answered 401 by the
\* base principal resolver; and once an edit sets the status to active or
\* pending, every token of that user that is unexpired and has a live session
\* row is accepted again.
C28_StatusGatesTokens ==
    [][/\ resp'.op = "status" =>
            \A t \in issued, u \in UserIds, st \in UserStatus :
                (resp'.code = 200 /\ update_user_status(t, u, st)) =>
                    /\ sessions' = sessions
                    /\ \A k \in issued :
                        ( /\ k.user_id = u
                          /\ st \in {"active", "pending"}
                          /\ verify_token(k, now) = "ok"
                          /\ validate_session(sessions, users, hash_token(k), now) # {} )
                            => get_current_user(k)'.code = 200
       /\ \A k \in issued' :
            ( /\ users'[k.user_id].exists
              /\ users'[k.user_id].status \in {"suspended", "inactive"} )
                => get_current_user(k)'.code = 401]_vars

\* an admin has suspended a user, whose unexpired token still has its live
\* session row and is answered 401
C28_Witness ==
    /\ resp.op = "status"
    /\ resp.code = 200
    /\ \E k \in issued :
           /\ users[k.user_id].exists
           /\ users[k.user_id].status = "suspended"
           /\ verify_token(k, now) = "ok"
           /\ validate_session(sessions, users, hash_token(k), now) # {}
           /\ get_current_user(k).code = 401

\* C29: a user whose status is suspended keeps that status through every step
\* other than an admin's status edit or direct grant; the approval of a request
\* the user filed before the suspension does not make the user active.
C29_SuspendedStays ==
    [][\A u \in UserIds :
        ( /\ users[u].exists
          /\ users[u].status = "suspended"
          /\ users'[u].exists
          /\ users'[u].status # "suspended" ) =>
            resp'.op \in {"status", "permission"}]_vars

\* C30: a run of PUT /profile, whatever fields its body carries, leaves every
\* users row's status, role, permission window and granted_by as they were,
\* and changes the username, full_name or email of no user but the caller.
C30_ProfileOwnColumns ==
    [][resp'.op = "profile_update" =>
        /\ users' = users
        /\ \A u \in UserIds : u # resp'.caller => profile'[u] = profile[u]]_vars

\* a pending user has changed the own username through PUT /profile and is
\* still pending
C30_Witness ==
    /\ resp.op = "profile_update"
    /\ resp.code = 200
    /\ resp.caller # AdminId
    /\ profile[resp.caller].username # RegisteredProfile(resp.caller).username
    /\ users[resp.caller].status = "pending"

====
